---- MODULE Spec2Model ----
(***************************************************************************)
(* The URL work queue of the TripAdvisor scraper (src/db.py), its legacy   *)
(* bulk insert (src/update_city_result_number.py) and the fetch            *)
(* orchestrator that drains it (src/3_scrape_city_restaurant_urls.py).     *)
(***************************************************************************)
EXTENDS Integers, Sequences, FiniteSets, Bags, TLC

VARIABLES
    store,      \* table city_restaurant_links: a bag of rows
    lastOp,     \* the store call made by the last step, with its result
    todo,       \* per enqueue worker: the (geoname_id, url) pairs still to add
    assigned,   \* per enqueue worker: the pairs it was given
    store0,     \* the table when the run started
    args,       \* the orchestrator's command line
    pc,         \* the orchestrator's position: "top", "drain" or "exit"
    iteration,  \* the orchestrator's iteration counter
    urls,       \* the listing the current iteration drains
    cursor,     \* the batch being processed: its geoname_id and start index
    work,       \* per URL of the batch: the state of its process_single_url
    final,      \* per URL of the batch: what the attempt it returned on got
    seen,       \* per URL of the batch: what its attempts so far got
    city,       \* the city record handed to the URL generator
    generated,  \* what the URL generator returned for it
    answers,    \* the answers the remote API gives to the next requests
    forwarded,  \* the outcome of forwarding one record to the remote API
    inst,       \* per orchestrator instance: URLs to remove, removals counted
    run,        \* one orchestrator run, seen iteration by iteration
    lam,        \* one invocation of lambda_handler: inputs and response
    linked,     \* the outcome of sending one link to the remote API
    spider_calls \* calls of request_spider_api made by one invocation

vars == <<store, lastOp, todo, assigned, store0, args, pc, iteration, urls,
          cursor, work, final, seen, city, generated, answers,
          forwarded, inst, run, lam, linked, spider_calls>>

orchVars == <<args, pc, iteration, urls, cursor, work, final, seen>>

\* the state of the URL generator, the record sink and the second instance
auxVars == <<city, generated, answers, forwarded, inst, run, lam, linked,
            spider_calls>>

\* -------------------------------------------------------------------------
\* Bounds of the model
\* -------------------------------------------------------------------------
NumCities == 2
MaxRows == 2
MaxLinks == 2
NumWorkers == 2
MaxItems == 1
MaxIterations == 2
MaxResults == 61
MaxAnswers == 3
NumInstances == 2
BatchRows == 6
MaxCalls == 2

\* -------------------------------------------------------------------------
\* Values
\* -------------------------------------------------------------------------
\* Python's None, for an optional status and for an optional geoname_id
None == "None"
NoId == -1

Statuses == {"pending", "in_progress", "completed"}

Cities == 1..NumCities

RECURSIVE Digits(_)
\* str(n) of a non-negative integer, as the f-string renders an offset
Digits(n) == IF n < 10 THEN <<n>> ELSE Append(Digits(n \div 10), n % 10)

\* The listing URL of page i of a city as generate_urls builds it, reduced to
\* what follows the common base URL: nothing for the first page, the decimal
\* digits of "&offset=<30*i>" for the others.
UrlOfPage(i) == IF i = 0 THEN <<>> ELSE Digits(i * 30)

\* The pages whose URLs the model uses: as strings "&offset=120" sorts before
\* "&offset=30", as numbers after it.
Pages == {0, 1, 4}

URLS == {UrlOfPage(i) : i \in Pages}

Row(geoname_id, url, status) ==
    [geoname_id |-> geoname_id, url |-> url, status |-> status]

\* -------------------------------------------------------------------------
\* The table and its UNIQUE(url) constraint
\* -------------------------------------------------------------------------
\* rows of table s whose url is u
RowsWithUrl(s, u) == {r \in BagToSet(s) : r.url = u}

RECURSIVE SumCopies(_, _)
SumCopies(s, rows) ==
    IF rows = {} THEN 0
    ELSE LET r == CHOOSE x \in rows : TRUE
         IN  CopiesIn(r, s) + SumCopies(s, rows \ {r})

\* number of rows of table s whose url is u
CountUrl(s, u) == SumCopies(s, RowsWithUrl(s, u))

\* the UNIQUE constraint on column url rejects the insert (IntegrityError)
UniqueViolation(s, url) == RowsWithUrl(s, url) # {}

\* bytewise string comparison (SQLite's BINARY collation): a < b
StrLess(a, b) ==
    \E k \in 1..(Len(b)) :
        /\ \A j \in 1..(k - 1) : j <= Len(a) /\ a[j] = b[j]
        /\ \/ k = Len(a) + 1
           \/ k <= Len(a) /\ a[k] < b[k]

\* ORDER BY geoname_id, offset as a number: shorter digit strings first
RowLessNumeric(r1, r2) ==
    \/ r1.geoname_id < r2.geoname_id
    \/ /\ r1.geoname_id = r2.geoname_id
       /\ \/ Len(r1.url) < Len(r2.url)
          \/ Len(r1.url) = Len(r2.url) /\ StrLess(r1.url, r2.url)

\* ORDER BY geoname_id, url
RowLess(r1, r2) ==
    \/ r1.geoname_id < r2.geoname_id
    \/ r1.geoname_id = r2.geoname_id /\ StrLess(r1.url, r2.url)

RECURSIVE SortRows(_)
\* the rows of bag b as the SELECT returns them
SortRows(b) ==
    IF BagToSet(b) = {} THEN <<>>
    ELSE LET m == CHOOSE x \in BagToSet(b) :
                      \A y \in BagToSet(b) : ~RowLess(y, x)
         IN  <<m>> \o SortRows(b (-) SetToBag({m}))

\* DELETE ... WHERE url = ?: the rows of s whose url is not the given one
WithoutUrl(s, url) == [r \in {x \in BagToSet(s) : x.url # url} |-> s[r]]

\* WHERE geoname_id IN (...) [AND status = ?]: the rows of s that match
Matching(s, geoname_ids, status) ==
    [r \in {x \in BagToSet(s) : /\ x.geoname_id \in geoname_ids
                                /\ (status # None => x.status = status)}
        |-> s[r]]

\* -------------------------------------------------------------------------
\* src/db.py
\* -------------------------------------------------------------------------
\* INSERT OR REPLACE in place of INSERT: a second insert of a url replaces the
\* row and reports success
add_city_restaurant_Replace(s, geoname_id, url, status, locked) ==
    IF locked THEN [ret |-> FALSE, raised |-> FALSE, attempts |-> 1, store |-> s]
    ELSE [ret |-> TRUE, raised |-> FALSE, attempts |-> 1,
          store |-> WithoutUrl(s, url)
                        (+) SetToBag({Row(geoname_id, url, status)})]

\* the table declared without UNIQUE on url
add_city_restaurant_NoUnique(s, geoname_id, url, status, locked) ==
    IF locked THEN [ret |-> FALSE, raised |-> FALSE, attempts |-> 1, store |-> s]
    ELSE [ret |-> TRUE, raised |-> FALSE, attempts |-> 1,
          store |-> s (+) SetToBag({Row(geoname_id, url, status)})]

\* the duplicate-key error handled by no except clause
add_city_restaurant_Raises(s, geoname_id, url, status, locked) ==
    IF locked THEN [ret |-> FALSE, raised |-> FALSE, attempts |-> 1, store |-> s]
    ELSE IF UniqueViolation(s, url)
    THEN [ret |-> FALSE, raised |-> TRUE, attempts |-> 1, store |-> s]
    ELSE [ret |-> TRUE, raised |-> FALSE, attempts |-> 1,
          store |-> s (+) SetToBag({Row(geoname_id, url, status)})]

\* add_city_restaurant: locked = the connection could not get the write lock
\* (sqlite3.OperationalError, caught by "except Exception")
add_city_restaurant(s, geoname_id, url, status, locked) ==
    IF locked THEN [ret |-> FALSE, raised |-> FALSE, attempts |-> 1, store |-> s]
    ELSE IF UniqueViolation(s, url)
    THEN [ret |-> FALSE, raised |-> FALSE, attempts |-> 1, store |-> s]
    ELSE [ret |-> TRUE, raised |-> FALSE, attempts |-> 1,
          store |-> s (+) SetToBag({Row(geoname_id, url, status)})]

\* update_city_restaurant without the rowcount test
update_city_restaurant_NoRowcount(s, url, geoname_id, status, locked) ==
    IF geoname_id = NoId /\ status = None
    THEN [ret |-> FALSE, raised |-> FALSE, attempts |-> 0, store |-> s]
    ELSE IF locked
    THEN [ret |-> FALSE, raised |-> FALSE, attempts |-> 1, store |-> s]
    ELSE LET Upd(r) ==
                 IF r.url # url THEN r
                 ELSE Row(IF geoname_id # NoId THEN geoname_id ELSE r.geoname_id,
                          r.url,
                          IF status # None THEN status ELSE r.status)
         IN  [ret |-> TRUE, raised |-> FALSE, attempts |-> 1,
              store |-> BagOfAll(Upd, s)]

\* update_city_restaurant: geoname_id and status may be None
update_city_restaurant(s, url, geoname_id, status, locked) ==
    IF geoname_id = NoId /\ status = None
    THEN [ret |-> FALSE, raised |-> FALSE, attempts |-> 0, store |-> s]
    ELSE IF locked
    THEN [ret |-> FALSE, raised |-> FALSE, attempts |-> 1, store |-> s]
    ELSE IF RowsWithUrl(s, url) = {}
    THEN [ret |-> FALSE, raised |-> FALSE, attempts |-> 1, store |-> s]
    ELSE LET Upd(r) ==
                 IF r.url # url THEN r
                 ELSE Row(IF geoname_id # NoId THEN geoname_id ELSE r.geoname_id,
                          r.url,
                          IF status # None THEN status ELSE r.status)
         IN  [ret |-> TRUE, raised |-> FALSE, attempts |-> 1,
              store |-> BagOfAll(Upd, s)]

\* remove_city_restaurant_url returning True whatever the rowcount
remove_city_restaurant_url_NoRowcount(s, url, locked) ==
    IF locked THEN [ret |-> FALSE, raised |-> FALSE, attempts |-> 1, store |-> s]
    ELSE [ret |-> TRUE, raised |-> FALSE, attempts |-> 1,
          store |-> WithoutUrl(s, url)]

\* remove_city_restaurant_url
remove_city_restaurant_url(s, url, locked) ==
    IF locked THEN [ret |-> FALSE, raised |-> FALSE, attempts |-> 1, store |-> s]
    ELSE [ret |-> CountUrl(s, url) > 0, raised |-> FALSE, attempts |-> 1,
          store |-> WithoutUrl(s, url)]

\* get_city_restaurant_urls_with_status: geoname_ids a set of ids, status a
\* status or None; the dict it returns, as a function from the ids that have
\* rows to their (url, status) pairs in the order of the SELECT
get_city_restaurant_urls_with_status(s, geoname_ids, status) ==
    IF geoname_ids = {} THEN [c \in {} |-> <<>>]
    ELSE LET rows == SortRows(Matching(s, geoname_ids, status))
             ids  == {rows[i].geoname_id : i \in 1..Len(rows)}
             Of(c) == LET Mine(r) == r.geoname_id = c
                          mine == SelectSeq(rows, Mine)
                      IN  [i \in 1..Len(mine) |-> <<mine[i].url, mine[i].status>>]
         IN  [c \in ids |-> Of(c)]

\* -------------------------------------------------------------------------
\* src/update_city_result_number.py
\* -------------------------------------------------------------------------
RECURSIVE InsertAll(_, _, _)
\* the INSERT loop of add_links_to_database inside one transaction: the table
\* after all inserts, and whether none of them violated UNIQUE(url)
InsertAll(s, geoname_id, links) ==
    IF links = <<>> THEN [ok |-> TRUE, store |-> s]
    ELSE IF UniqueViolation(s, Head(links)) THEN [ok |-> FALSE, store |-> s]
    ELSE InsertAll(s (+) SetToBag({Row(geoname_id, Head(links), "pending")}),
                   geoname_id, Tail(links))

\* add_links_to_database: ValueError for no links or a falsy geoname_id; an
\* exception inside the transaction leaves it uncommitted
add_links_to_database(s, geoname_id, links, locked) ==
    IF links = <<>> \/ geoname_id = 0
    THEN [ret |-> FALSE, raised |-> TRUE, attempts |-> 0, store |-> s]
    ELSE IF locked \/ ~InsertAll(s, geoname_id, links).ok
    THEN [ret |-> FALSE, raised |-> FALSE, attempts |-> 1, store |-> s]
    ELSE [ret |-> TRUE, raised |-> FALSE, attempts |-> 1,
          store |-> InsertAll(s, geoname_id, links).store]

\* -------------------------------------------------------------------------
\* src/2_create_links_in_db.py: the URL generator
\* -------------------------------------------------------------------------
\* A value of a city dict: the key is absent, None, or an integer
AbsentVal == [tag |-> "absent", n |-> 0]
NoneVal == [tag |-> "none", n |-> 0]
IntVal(n) == [tag |-> "int", n |-> n]

\* dict.get(key, default)
Get(v, default) == IF v.tag = "absent" THEN default ELSE v

\* the truth value of an optional integer: None and 0 are false
Truthy(v) == v.tag = "int" /\ v.n # 0

\* the city records handed to the generator
CityRecords ==
    [tripadvisor_geo_id :
         {AbsentVal, NoneVal} \cup {IntVal(n) : n \in 0..NumCities},
     tripadvisor_restaurants_results :
         {AbsentVal, NoneVal} \cup {IntVal(n) : n \in -1..MaxResults}]

\* A listing URL reduced to what varies: the geo id and the text after
\* "&offset=", the empty text when the URL has no offset parameter.
PageUrl(geo_id, offset) == [geo |-> geo_id, offset |-> offset]

\* the pagination loop of the legacy generator: range(1, pages + 1)
generate_restaurant_urls_Legacy(c) ==
    LET geo_id == Get(c.tripadvisor_geo_id, NoneVal)
        results == Get(c.tripadvisor_restaurants_results, IntVal(0))
    IN  IF ~Truthy(geo_id) THEN [raised |-> FALSE, urls |-> <<>>]
        ELSE IF results.tag = "none" THEN [raised |-> TRUE, urls |-> <<>>]
        ELSE IF results.n <= 0 THEN [raised |-> FALSE, urls |-> <<>>]
        ELSE LET pages == results.n \div 30
                              + (IF results.n % 30 > 0 THEN 1 ELSE 0)
             IN  [raised |-> FALSE,
                  urls |-> <<PageUrl(geo_id.n, Digits(0))>> \o
                           [i \in 1..pages |->
                                PageUrl(geo_id.n, Digits(i * 30))]]

\* the generator without the test of the geo id
generate_restaurant_urls_NoGeoTest(c) ==
    LET geo_id == Get(c.tripadvisor_geo_id, NoneVal)
        results == Get(c.tripadvisor_restaurants_results, IntVal(0))
    IN  IF results.tag = "none" THEN [raised |-> TRUE, urls |-> <<>>]
        ELSE IF results.n <= 0 THEN [raised |-> FALSE, urls |-> <<>>]
        ELSE LET pages == results.n \div 30
                              + (IF results.n % 30 > 0 THEN 1 ELSE 0)
             IN  [raised |-> FALSE,
                  urls |-> <<PageUrl(geo_id.n, Digits(0))>> \o
                           [i \in 1..(pages - 1) |->
                                PageUrl(geo_id.n, Digits(i * 30))]]

\* generate_restaurant_urls(city): raised, the comparison of None with 0
\* raised TypeError; urls, the list returned
generate_restaurant_urls(c) ==
    LET geo_id == Get(c.tripadvisor_geo_id, NoneVal)
        results == Get(c.tripadvisor_restaurants_results, IntVal(0))
    IN  IF ~Truthy(geo_id) THEN [raised |-> FALSE, urls |-> <<>>]
        ELSE IF results.tag = "none" THEN [raised |-> TRUE, urls |-> <<>>]
        ELSE IF results.n <= 0 THEN [raised |-> FALSE, urls |-> <<>>]
        ELSE LET pages == results.n \div 30
                              + (IF results.n % 30 > 0 THEN 1 ELSE 0)
             IN  [raised |-> FALSE,
                  urls |-> <<PageUrl(geo_id.n, Digits(0))>> \o
                           [i \in 1..(pages - 1) |->
                                PageUrl(geo_id.n, Digits(i * 30))]]

\* the generator was not called yet
NotGenerated == [calls |-> 0, raised |-> FALSE, urls |-> <<>>, prev |-> <<>>]

IdleGenerator ==
    /\ city = [tripadvisor_geo_id |-> AbsentVal,
               tripadvisor_restaurants_results |-> AbsentVal]
    /\ generated = NotGenerated

\* -------------------------------------------------------------------------
\* src/3_scrape_city_restaurant_urls.py: forwarding one record
\* -------------------------------------------------------------------------
\* requests.post raised (connection error, timeout)
NetErr == 0

\* what the remote API answers to one POST: a status code, or no answer
AnswerCodes == {NetErr, 200, 201, 400, 500}

\* add_restaurant_basic_info(data) when the remote API answers with
\* answers[1], answers[2], ... to successive requests: success, the "success"
\* key of the dict returned; requests, the POSTs made
add_restaurant_basic_info(has_data, ans) ==
    IF ~has_data THEN [success |-> FALSE, requests |-> 0]
    ELSE [success |-> ans[1] \in {200, 201}, requests |-> 1]

\* no record was forwarded yet
NotForwarded(has_data) ==
    [has_data |-> has_data, done |-> FALSE, requests |-> 0,
     successful_restaurants |-> 0, failed_restaurants |-> 0]

IdleSink ==
    /\ answers = <<>>
    /\ forwarded = NotForwarded(FALSE)

\* -------------------------------------------------------------------------
\* Several orchestrator instances on one store
\* -------------------------------------------------------------------------
\* an instance that has nothing to remove
NoInstance == [decided |-> {}, pending |-> {}, urls_removed_overall |-> 0]

IdleInstances == inst = [i \in 1..NumInstances |-> NoInstance]

\* -------------------------------------------------------------------------
\* src/update_city_result_number.py: the legacy URL generator
\* -------------------------------------------------------------------------
\* the truth value of a city dict: a dict without keys is false
CityGiven(c) ==
    \/ c.tripadvisor_geo_id.tag # "absent"
    \/ c.tripadvisor_restaurants_results.tag # "absent"

\* generate_urls(city, results): none, None is returned; urls, the list
generate_urls(c, results) ==
    IF ~CityGiven(c) \/ ~Truthy(results) THEN [none |-> TRUE, urls |-> <<>>]
    ELSE LET geo_id == Get(c.tripadvisor_geo_id, NoneVal)
             pages == results.n \div 30
                          + (IF results.n % 30 > 0 THEN 1 ELSE 0)
         IN  [none |-> FALSE,
              urls |-> <<PageUrl(geo_id, <<>>)>> \o
                       (IF pages > 1
                        THEN [i \in 1..pages |->
                                  PageUrl(geo_id, Digits(i * 30))]
                        ELSE <<>>)]

\* -------------------------------------------------------------------------
\* src/2_create_links_in_db.py: one link is sent to the remote API
\* -------------------------------------------------------------------------
link_max_retries == 3

\* requests.post raised an exception that is no RequestException
OtherErr == 1

\* what the remote API answers to one POST of a link
LinkCodes == {NetErr, OtherErr, 200, 201, 400, 404, 409, 500, 503}

\* the answer makes the loop go on with any client or server error
LinkRetryable_AnyError(a, attempt) ==
    /\ a = NetErr \/ a >= 400
    /\ attempt < link_max_retries - 1

\* the answer to attempt (counted from 0) makes the loop go on: a server
\* error or a RequestException, and attempts are left
LinkRetryable(a, attempt) ==
    /\ a = NetErr \/ a >= 500
    /\ attempt < link_max_retries - 1

RECURSIVE LinkAttempts(_, _)
\* the for loop of add_restaurant_link_via_api from the given attempt on
LinkAttempts(ans, attempt) ==
    IF attempt >= link_max_retries
    THEN [ret |-> FALSE, requests |-> attempt]
    ELSE LET a == ans[attempt + 1]
         IN  IF a \in {200, 201}
             THEN [ret |-> TRUE, requests |-> attempt + 1]
             ELSE IF LinkRetryable(a, attempt)
             THEN LinkAttempts(ans, attempt + 1)
             ELSE [ret |-> FALSE, requests |-> attempt + 1]

\* add_restaurant_link_via_api(geoname_id, url) when the remote API answers
\* with ans[1], ans[2], ... to successive requests
add_restaurant_link_via_api(ans) == LinkAttempts(ans, 0)

\* no link was sent yet
NotLinked == [done |-> FALSE, ret |-> FALSE, requests |-> 0]

IdleLink == linked = NotLinked

\* -------------------------------------------------------------------------
\* src/AWSLambda/AWS_scrape_restaurant_data.py: lambda_handler
\* -------------------------------------------------------------------------
\* What fetch_random_restaurant returns: None, an empty dict, or a record
\* that has or lacks the keys "id", "name" and "tripadvisor_detail_page".
Restaurants ==
    [kind : {"none", "empty"}, has_id : {FALSE}, has_name : {FALSE},
     has_url : {FALSE}]
    \cup [kind : {"record"}, has_id : BOOLEAN, has_name : BOOLEAN,
          has_url : BOOLEAN]

\* The circumstances of one invocation: the restaurant fetched, whether the
\* page request inside scrape_restaurant_data fails, whether put_object fails,
\* whether UPDATE_API_ENDPOINT is set.
LambdaInputs ==
    [restaurant : Restaurants, page_fails : BOOLEAN, upload_fails : BOOLEAN,
     endpoint : BOOLEAN]

\* scrape_restaurant_data raises ValueError when the record has no URL; a
\* failing page request is caught inside it and recorded in the data returned
ScrapeRaises(in) == ~in.restaurant.has_url

\* the handler's except clause: a status update "failed" when the endpoint is
\* set, and the 500 response
HandlerFailed(in, scraped, uploaded, sent) ==
    [statusCode |-> 500, body |-> "error", scraped |-> scraped,
     uploaded |-> uploaded,
     updates |-> IF in.endpoint THEN Append(sent, "failed") ELSE sent]

\* lambda_handler(event, context): the response and what was done on the way
lambda_handler(in) ==
    IF in.restaurant.kind # "record"
    THEN [statusCode |-> 404, body |-> "error", scraped |-> FALSE,
          uploaded |-> FALSE, updates |-> <<>>]
    ELSE IF ScrapeRaises(in) THEN HandlerFailed(in, FALSE, FALSE, <<>>)
    ELSE IF in.upload_fails THEN HandlerFailed(in, TRUE, FALSE, <<>>)
    ELSE IF in.endpoint /\ ~in.restaurant.has_id
    THEN HandlerFailed(in, TRUE, TRUE, <<>>)
    ELSE IF ~in.restaurant.has_name
    THEN HandlerFailed(in, TRUE, TRUE,
                       IF in.endpoint THEN <<"success">> ELSE <<>>)
    ELSE [statusCode |-> 200, body |-> "success", scraped |-> TRUE,
          uploaded |-> TRUE,
          updates |-> IF in.endpoint THEN <<"success">> ELSE <<>>]

\* the handler was not invoked
NoResponse == [statusCode |-> 0, body |-> "none", scraped |-> FALSE,
               uploaded |-> FALSE, updates |-> <<>>]

NotInvoked(in) == [in |-> in, called |-> FALSE, response |-> NoResponse]

IdleLambda ==
    lam = NotInvoked([restaurant |-> [kind |-> "none", has_id |-> FALSE,
                                      has_name |-> FALSE, has_url |-> FALSE],
                      page_fails |-> FALSE, upload_fails |-> FALSE,
                      endpoint |-> FALSE])

\* -------------------------------------------------------------------------
\* src/3_scrape_city_restaurant_urls.py: one run of the orchestrator, seen
\* iteration by iteration
\* -------------------------------------------------------------------------
\* readable, the database file can be read; drains, the drain iterations
\* made; message, what the run printed when it left the loop
NoRun == [readable |-> TRUE, drains |-> 0, message |-> "none"]

IdleRun == run = NoRun

\* no invocation of process_single_url is counted
IdleCalls == spider_calls = 0

\* the lambda, the link client, the iteration view and the call count are at
\* rest
IdleRest == IdleRun /\ IdleLambda /\ IdleLink /\ IdleCalls

\* the state of the iteration view, the lambda and the link client
restVars == <<run, lam, linked, spider_calls>>

\* only the store, the enqueue workers and one orchestrator are in use
IdleAux == IdleGenerator /\ IdleSink /\ IdleInstances /\ IdleRest

\* -------------------------------------------------------------------------
\* The store under concurrent callers: every call is one transaction
\* -------------------------------------------------------------------------
Op(op, locked, r) ==
    [op |-> op, locked |-> locked, ret |-> r.ret, raised |-> r.raised,
     attempts |-> r.attempts]

NoOp == [op |-> "init", locked |-> FALSE, ret |-> FALSE, raised |-> FALSE,
         attempts |-> 0]

IdleWorkers ==
    /\ todo = [w \in 1..NumWorkers |-> {}]
    /\ assigned = [w \in 1..NumWorkers |-> {}]

NoBatch == [geoname_id |-> 0, i |-> 0]

\* the orchestrator is not running
IdleOrchestrator ==
    /\ args = [status |-> "pending", continuous |-> FALSE, max_iterations |-> 1,
               validate |-> FALSE]
    /\ pc = "exit"
    /\ iteration = 0
    /\ urls = [c \in {} |-> <<>>]
    /\ cursor = NoBatch
    /\ work = [u \in {} |-> 0]
    /\ final = [u \in {} |-> 0]
    /\ seen = [u \in {} |-> 0]

\* init_database: the table exists and is empty
InitStore ==
    /\ store = EmptyBag
    /\ lastOp = NoOp
    /\ store0 = EmptyBag
    /\ IdleWorkers
    /\ IdleOrchestrator
    /\ IdleAux

Enqueue ==
    \E c \in Cities, u \in URLS, st \in Statuses, locked \in BOOLEAN :
        LET r == add_city_restaurant(store, c, u, st, locked)
        IN  /\ BagCardinality(r.store) <= MaxRows
            /\ store' = r.store
            /\ lastOp' = Op("enqueue", locked, r)
            /\ UNCHANGED <<todo, assigned, store0, orchVars, auxVars>>

Update ==
    \E u \in URLS, c \in Cities \cup {NoId}, st \in Statuses \cup {None},
       locked \in BOOLEAN :
        LET r == update_city_restaurant(store, u, c, st, locked)
        IN  /\ store' = r.store
            /\ lastOp' = Op("update", locked, r)
            /\ UNCHANGED <<todo, assigned, store0, orchVars, auxVars>>

Remove ==
    \E u \in URLS, locked \in BOOLEAN :
        LET r == remove_city_restaurant_url(store, u, locked)
        IN  /\ store' = r.store
            /\ lastOp' = Op("remove", locked, r)
            /\ UNCHANGED <<todo, assigned, store0, orchVars, auxVars>>

LinkLists == UNION {[1..n -> URLS] : n \in 0..MaxLinks}

BulkInsert ==
    \E c \in 0..NumCities, links \in LinkLists, locked \in BOOLEAN :
        LET r == add_links_to_database(store, c, links, locked)
        IN  /\ BagCardinality(r.store) <= MaxRows
            /\ store' = r.store
            /\ lastOp' = Op("bulk", locked, r)
            /\ UNCHANGED <<todo, assigned, store0, orchVars, auxVars>>

\* a listing as the orchestrator asks for it; ret: it holds at least one URL
List ==
    \E ids \in SUBSET Cities, st \in Statuses \cup {None} :
        LET m == get_city_restaurant_urls_with_status(store, ids, st)
        IN  /\ lastOp' = [op |-> "list", locked |-> FALSE,
                          ret |-> (DOMAIN m # {}), raised |-> FALSE,
                          attempts |-> 1]
            /\ UNCHANGED <<store, todo, assigned, store0, orchVars, auxVars>>

NextStore == Enqueue \/ Update \/ Remove \/ BulkInsert \/ List

SpecStore == InitStore /\ [][NextStore]_vars

\* -------------------------------------------------------------------------
\* Properties of the store (SpecStore)
\* -------------------------------------------------------------------------
\* number of rows of table s
RowCount(s) == BagCardinality(s)

\* the rows of s whose url is not u, with their multiplicities
OtherRowsSame(s, t, u) ==
    \A r \in BagToSet(s) \cup BagToSet(t) :
        r.url # u => CopiesIn(r, s) = CopiesIn(r, t)

\* C4: enqueue is idempotent. In every reachable table and for every
\* (geoname_id, url, status), two successive calls of add_city_restaurant with
\* the same arguments leave exactly one row with that url; the second call
\* returns False, raises nothing and leaves the table as the first call left it.
EnqueueIdempotent ==
    \A c \in Cities, u \in URLS, st \in Statuses :
        LET r1 == add_city_restaurant(store, c, u, st, FALSE)
            r2 == add_city_restaurant(r1.store, c, u, st, FALSE)
        IN  /\ r2.ret = FALSE
            /\ ~r2.raised
            /\ r2.store = r1.store
            /\ CountUrl(r2.store, u) = 1

\* C4 witness: a repeated enqueue of a url that has a row was rejected
EnqueueRejected ==
    /\ lastOp.op = "enqueue"
    /\ ~lastOp.locked
    /\ ~lastOp.ret
    /\ store # EmptyBag

\* C5: url is the natural key. In every reachable table, after any
\* interleaving of enqueue, bulk insert, update and remove calls, no two rows
\* have the same url.
UniqueUrl == \A u \in URLS : CountUrl(store, u) <= 1

\* C5 witness: a bulk insert that met a duplicate url was refused on a table
\* that holds rows
BulkRefused ==
    /\ lastOp.op = "bulk"
    /\ ~lastOp.locked
    /\ ~lastOp.ret
    /\ ~lastOp.raised
    /\ RowCount(store) >= 1

\* C6: remove_city_restaurant_url. For a url without a row it returns False and
\* leaves the table unchanged; for a url with a row it returns True, deletes
\* exactly that row and leaves every other row unchanged.
RemoveContract ==
    \A u \in URLS :
        LET r == remove_city_restaurant_url(store, u, FALSE)
        IN  IF RowsWithUrl(store, u) = {}
            THEN r.ret = FALSE /\ r.store = store
            ELSE /\ r.ret = TRUE
                 /\ RowsWithUrl(r.store, u) = {}
                 /\ RowCount(r.store) = RowCount(store) - 1
                 /\ OtherRowsSame(store, r.store, u)

\* C6 witness: a remove deleted a row and other rows are left
RemoveDeleted ==
    /\ lastOp.op = "remove"
    /\ lastOp.ret
    /\ store # EmptyBag

\* C8 (the claim as stated): a store write that hits the database-locked
\* condition is abandoned only after 5 attempts; the abandoned write returns
\* failure.
LockedWriteRetried ==
    (lastOp.op \in {"enqueue", "update", "remove"} /\ lastOp.locked
        /\ lastOp.attempts > 0)
        => (lastOp.attempts = 5 /\ ~lastOp.ret)

\* C9: get_city_restaurant_urls_with_status with a set of ids and a status
\* returns, for each requested city that has a row with that status, exactly
\* that city's rows with that status as (url, status) pairs in ascending url
\* order; no other city and no other status appears.
ListContract ==
    \A ids \in SUBSET Cities, st \in Statuses :
        LET m == get_city_restaurant_urls_with_status(store, ids, st)
            Rows(c) == {r \in BagToSet(store) :
                            r.geoname_id = c /\ r.status = st}
        IN  /\ DOMAIN m = {c \in ids : Rows(c) # {}}
            /\ \A c \in DOMAIN m :
                   /\ Len(m[c]) = SumCopies(store, Rows(c))
                   /\ {m[c][i] : i \in 1..Len(m[c])}
                          = {<<r.url, r.status>> : r \in Rows(c)}
                   /\ \A i, j \in 1..Len(m[c]) :
                          i < j => StrLess(m[c][i][1], m[c][j][1])

\* C9 witness: a non-empty listing was taken of a table in which one city has
\* two rows of one status
ListedTwo ==
    /\ lastOp.op = "list"
    /\ lastOp.ret
    /\ \E r1, r2 \in BagToSet(store) :
           /\ r1.url # r2.url
           /\ r1.geoname_id = r2.geoname_id
           /\ r1.status = r2.status

\* C10: update_city_restaurant returns False and leaves the table unchanged
\* when neither geoname_id nor status is given or when no row has the url;
\* otherwise it returns True and changes only the given fields of that row,
\* never a url and never the number of rows.
UpdateContract ==
    \A u \in URLS, c \in Cities \cup {NoId}, st \in Statuses \cup {None} :
        LET r == update_city_restaurant(store, u, c, st, FALSE)
        IN  IF (c = NoId /\ st = None) \/ RowsWithUrl(store, u) = {}
            THEN r.ret = FALSE /\ r.store = store
            ELSE /\ r.ret = TRUE
                 /\ RowCount(r.store) = RowCount(store)
                 /\ \A v \in URLS : CountUrl(r.store, v) = CountUrl(store, v)
                 /\ OtherRowsSame(store, r.store, u)
                 /\ \A old \in RowsWithUrl(store, u) :
                        \E new \in RowsWithUrl(r.store, u) :
                            /\ new.geoname_id =
                                   IF c = NoId THEN old.geoname_id ELSE c
                            /\ new.status =
                                   IF st = None THEN old.status ELSE st

\* C10 witness: an update changed a row
UpdateApplied ==
    /\ lastOp.op = "update"
    /\ lastOp.ret

\* -------------------------------------------------------------------------
\* N workers enqueueing overlapping URL sets (SpecEnqueue)
\* -------------------------------------------------------------------------
\* the geoname_id worker w enqueues its URLs under
CityOf(w) == ((w - 1) % NumCities) + 1

\* the tables the workers may find: empty, or one pending row
StartTables ==
    {EmptyBag} \cup {SetToBag({Row(1, u, "pending")}) : u \in URLS}

InitEnqueue ==
    /\ store \in StartTables
    /\ store0 = store
    /\ lastOp = NoOp
    /\ assigned \in [1..NumWorkers -> SUBSET URLS]
    /\ todo = assigned
    /\ IdleOrchestrator
    /\ IdleAux

\* worker w calls add_city_restaurant for one of its remaining URLs; the call
\* waits for the write lock and gets it
EnqueueWorker(w) ==
    \E u \in todo[w] :
        LET r == add_city_restaurant(store, CityOf(w), u, "pending", FALSE)
        IN  /\ store' = r.store
            /\ lastOp' = Op("enqueue", FALSE, r)
            /\ todo' = [todo EXCEPT ![w] = @ \ {u}]
            /\ UNCHANGED <<assigned, store0, orchVars, auxVars>>

NextEnqueue == \E w \in 1..NumWorkers : EnqueueWorker(w)

SpecEnqueue == InitEnqueue /\ [][NextEnqueue]_vars

AllEnqueued == \A w \in 1..NumWorkers : todo[w] = {}

max_retries == 3
min_size_kb == 10
batch_size == 5

\* the response carries no "status" key
NoStatus == 0

StatusCodes == {NoStatus, 200, 429, 500}

\* len(content) + len(str(json_data)) of a response, around the floor
Sizes == {min_size_kb * 1024 - 1, min_size_kb * 1024}

\* One element of itemListElement. shape: "full" (an "item" dict), "minimal"
\* ("name" and "url" at top level) or "other"; geo: the geo id parsed from the
\* restaurant URL is in the allow-list ("match"), is not ("mismatch"), or the
\* URL has none ("nogeo"); api: add_restaurant_basic_info succeeds for it.
Item(shape, geo, api) == [shape |-> shape, geo |-> geo, api |-> api]

\* the items the model draws from: every shape, every allow-list outcome, both
\* outcomes of the remote API
Items ==
    {Item("full", "match", TRUE), Item("full", "match", FALSE),
     Item("full", "mismatch", TRUE), Item("minimal", "match", TRUE),
     Item("minimal", "nogeo", FALSE), Item("other", "match", FALSE)}

ItemLists == UNION {[1..n -> Items] : n \in 0..MaxItems}

\* request_spider_api raises (HTTP error of the collaborator, network error)
RaiseResp ==
    [kind |-> "raise", error |-> FALSE, other |-> FALSE, items |-> <<>>,
     captcha |-> FALSE, size |-> 0, status |-> NoStatus]

\* request_spider_api returns None or an empty list
NoneResp ==
    [kind |-> "none", error |-> FALSE, other |-> FALSE, items |-> <<>>,
     captcha |-> FALSE, size |-> 0, status |-> NoStatus]

\* response[0]: error (the "error" key is set), other (json_data holds
\* "other_scripts"), items (the item lists of its scripts), captcha (content or
\* title holds a challenge indicator), size, status. A response with items
\* has other_scripts; the model draws those without error and challenge, of
\* sufficient size, with status 200 or 429.
Envelopes ==
    {r \in [kind : {"env"}, error : BOOLEAN, other : BOOLEAN,
            items : ItemLists, captcha : BOOLEAN, size : Sizes,
            status : StatusCodes] :
        r.items # <<>> => /\ r.other /\ ~r.error /\ ~r.captcha
                          /\ r.size = min_size_kb * 1024
                          /\ r.status \in {200, 429}}

Responses == {RaiseResp, NoneResp} \cup Envelopes

detect_captcha(resp) == resp.captcha

validate_response_size(resp) == resp.size >= min_size_kb * 1024

\* response[0].get("status", 200)
StatusOf(resp) == IF resp.status = NoStatus THEN 200 ELSE resp.status

\* -------------------------------------------------------------------------
\* process_single_url
\* -------------------------------------------------------------------------
\* the result dict and the loop counter at the start of process_single_url
NewResult ==
    [phase |-> "running", retry_count |-> 0, restaurants_found |-> FALSE,
     successful_restaurants |-> 0, failed_restaurants |-> 0,
     should_remove_url |-> FALSE, captcha_detected |-> FALSE,
     response_too_small |-> FALSE, error |-> "none"]

\* the allow-list check left out
ItemSkipped_Never(it, validate) == FALSE

\* the item is skipped by the allow-list check
ItemSkipped(it, validate) == validate /\ it.geo = "mismatch"

\* the item is handed to add_restaurant_basic_info
ItemForwarded(it, validate) ==
    ~ItemSkipped(it, validate) /\ it.shape \in {"full", "minimal"}

RECURSIVE ProcessItems(_, _)
\* the loop over item_list: the records forwarded with success and failure
ProcessItems(items, validate) ==
    IF items = <<>> THEN [ok |-> 0, failed |-> 0]
    ELSE LET it == Head(items)
             rest == ProcessItems(Tail(items), validate)
         IN  IF ~ItemForwarded(it, validate) THEN rest
             ELSE IF it.api THEN [rest EXCEPT !.ok = @ + 1]
             ELSE [rest EXCEPT !.failed = @ + 1]

\* the test after the loop without the status test
ConfirmedEmpty_NoStatus(w, resp) ==
    /\ resp.kind = "env"
    /\ ~resp.error
    /\ ~w.captcha_detected
    /\ ~w.response_too_small
    /\ validate_response_size(resp)
    /\ resp.other

\* the test after the loop without the test of the challenge flag
ConfirmedEmpty_NoChallenge(w, resp) ==
    /\ resp.kind = "env"
    /\ ~resp.error
    /\ ~w.response_too_small
    /\ StatusOf(resp) = 200
    /\ validate_response_size(resp)
    /\ resp.other

\* the test after the loop: the last response shows a page that is certainly
\* empty
ConfirmedEmpty(w, resp) ==
    /\ resp.kind = "env"
    /\ ~resp.error
    /\ ~w.captcha_detected
    /\ ~w.response_too_small
    /\ StatusOf(resp) = 200
    /\ validate_response_size(resp)
    /\ resp.other

\* the code after the loop with the test of restaurants_found left out
PostLoop_Always(w, resp) ==
    [w EXCEPT !.phase = "returned",
              !.retry_count = 0,
              !.should_remove_url = ConfirmedEmpty(w, resp)]

\* the code after the loop, and the return: the loop counter is gone
PostLoop(w, resp) ==
    [w EXCEPT !.phase = "returned",
              !.retry_count = 0,
              !.should_remove_url =
                  IF w.restaurants_found THEN @ ELSE ConfirmedEmpty(w, resp)]

\* the while test without the bound on retry_count
LoopTest_NoBound(w, resp) ==
    IF ~w.restaurants_found
    THEN w
    ELSE PostLoop(w, resp)

\* the while test that goes on until a record was ingested
LoopTest_UntilIngested(w, resp) ==
    IF w.retry_count < max_retries /\ w.successful_restaurants = 0
    THEN w
    ELSE PostLoop(w, resp)

\* the end of the loop body and "continue": the while test
LoopTest(w, resp) ==
    IF w.retry_count < max_retries /\ ~w.restaurants_found
    THEN w
    ELSE PostLoop(w, resp)

\* one pass of the while loop for response resp, up to the next call of the
\* collaborator or the return
Attempt(w, resp, validate) ==
    LET w1 == [w EXCEPT !.retry_count = @ + 1]
    IN  IF resp.kind = "raise"
        THEN [w1 EXCEPT !.phase = "returned", !.retry_count = 0,
                        !.error = "exception", !.should_remove_url = FALSE]
        ELSE IF resp.kind = "env" /\ ~resp.error
        THEN IF resp.other /\ resp.items # <<>>
             THEN LET n == ProcessItems(resp.items, validate)
                  IN  LoopTest([w1 EXCEPT !.restaurants_found = TRUE,
                                          !.should_remove_url = FALSE,
                                          !.successful_restaurants = @ + n.ok,
                                          !.failed_restaurants = @ + n.failed],
                               resp)
             ELSE IF detect_captcha(resp)
             THEN PostLoop([w1 EXCEPT !.captcha_detected = TRUE,
                                      !.error = "captcha"], resp)
             ELSE LET small == ~validate_response_size(resp)
                      w2 == IF ~small THEN w1
                            ELSE [w1 EXCEPT
                                     !.response_too_small = TRUE,
                                     !.error = IF w1.retry_count < max_retries
                                               THEN @ ELSE "too_small"]
                  IN  IF small /\ w1.retry_count < max_retries
                      THEN LoopTest(w2, resp)
                      ELSE IF resp.status # NoStatus /\ resp.status = 429
                      THEN PostLoop([w2 EXCEPT !.error = "rate_limited"], resp)
                      ELSE LoopTest(w2, resp)
        ELSE LoopTest(w1, resp)

\* -------------------------------------------------------------------------
\* __main__: the drain loop
\* -------------------------------------------------------------------------
\* the removal test with its first branch left out
ShouldRemoveRow_EmptyOnly(w) == w.should_remove_url

\* the removal test on a result: successfully processed, or confirmed empty
ShouldRemoveRow(w) ==
    \/ w.restaurants_found /\ w.successful_restaurants > 0
    \/ w.should_remove_url

\* what the checks below keep of the last response of a URL: amb, it was a
\* raised exception, an error envelope, a bot challenge, an undersized or a
\* 429 response; nominal, it was a 200 response without error and challenge,
\* of sufficient size, with other_scripts and without items
NoFinal == [amb |-> FALSE, nominal |-> FALSE]

FinalOf(resp) ==
    [amb |-> \/ resp.kind = "raise"
             \/ /\ resp.kind = "env"
                /\ \/ resp.error
                   \/ resp.captcha
                   \/ resp.size < min_size_kb * 1024
                   \/ resp.status = 429,
     nominal |-> /\ resp.kind = "env"
                 /\ ~resp.error
                 /\ ~resp.captcha
                 /\ resp.status = 200
                 /\ resp.size >= min_size_kb * 1024
                 /\ resp.other
                 /\ resp.items = <<>>]

\* the response signals throttling: a response without error, challenge and
\* items whose status is 429
Throttled(resp) ==
    /\ resp.kind = "env"
    /\ ~resp.error
    /\ ~resp.captcha
    /\ resp.items = <<>>
    /\ resp.status = 429

\* the attempt failed transiently: the call raised, returned nothing, or
\* returned an error envelope
Transient(resp) ==
    \/ resp.kind \in {"raise", "none"}
    \/ resp.kind = "env" /\ resp.error

\* the items of a response whose geo id the allow-list does not hold
Mismatched(items) == {k \in 1..Len(items) : items[k].geo = "mismatch"}

\* What the checks below keep of the last attempt of a URL: throttled, it got
\* a throttled response; early, the function returned on this transient
\* failure before its third attempt; eligible, the number of items of the
\* response that the allow-list check lets pass; allskipped, the response held
\* items and the allow-list check skipped every one.
NoSeen == [throttled |-> FALSE, early |-> FALSE, eligible |-> 0,
           allskipped |-> FALSE]

SeenAfter(s, w, resp, validate) ==
    LET held == IF resp.kind = "env" /\ ~resp.error /\ resp.other
                THEN Len(resp.items) ELSE 0
        skipped == IF validate THEN Cardinality(Mismatched(resp.items)) ELSE 0
    IN  [throttled |-> Throttled(resp),
         early |-> /\ Transient(resp)
                   /\ w.retry_count + 1 < max_retries
                   /\ Attempt(w, resp, validate).phase = "returned",
         eligible |-> IF held = 0 THEN 0 ELSE held - skipped,
         allskipped |-> held > 0 /\ skipped = held]

\* the rows the URL generator queued: two pages of city 1, one of city 2
QueueRows ==
    {Row(1, UrlOfPage(0), "pending"), Row(1, UrlOfPage(1), "pending"),
     Row(2, UrlOfPage(4), "pending")}

\* --status, --continuous, --max-iterations (read in continuous mode only) and
\* whether the allow-list expected_geo_ids holds ids
Args ==
    {a \in [status : Statuses, continuous : BOOLEAN,
            max_iterations : 1..MaxIterations, validate : BOOLEAN] :
        ~a.continuous => a.max_iterations = 1}

Init ==
    /\ store \in {SetToBag(q) : q \in SUBSET QueueRows}
    /\ store0 = store
    /\ lastOp = NoOp
    /\ IdleWorkers
    /\ args \in Args
    /\ pc = "top"
    /\ iteration = 0
    /\ urls = [c \in {} |-> <<>>]
    /\ cursor = NoBatch
    /\ work = [u \in {} |-> 0]
    /\ final = [u \in {} |-> 0]
    /\ seen = [u \in {} |-> 0]
    /\ IdleAux

\* the slice without its upper end: the rest of the city's listing
BatchOf_Whole(m, c, i) == {m[c][k][1] : k \in (i + 1)..Len(m[c])}

\* city_urls[i : i + batch_size] of the listing m
BatchOf(m, c, i) ==
    LET hi == IF i + batch_size < Len(m[c]) THEN i + batch_size ELSE Len(m[c])
    IN  {m[c][k][1] : k \in (i + 1)..hi}

\* the executor is handed process_single_url for every URL of the batch
Submit(m, c, i) ==
    /\ cursor' = [geoname_id |-> c, i |-> i]
    /\ work' = [u \in BatchOf(m, c, i) |-> NewResult]
    /\ final' = [u \in BatchOf(m, c, i) |-> NoFinal]
    /\ seen' = [u \in BatchOf(m, c, i) |-> NoSeen]

Exit ==
    /\ pc' = "exit"
    /\ cursor' = NoBatch
    /\ work' = [u \in {} |-> 0]
    /\ final' = [u \in {} |-> 0]
    /\ seen' = [u \in {} |-> 0]

\* the top of "while True" up to the first batch
StartIteration ==
    /\ pc = "top"
    /\ iteration' = iteration + 1
    /\ UNCHANGED <<store, lastOp, todo, assigned, store0, args, auxVars>>
    /\ IF iteration' > 1 /\ args.continuous
          /\ iteration' > args.max_iterations
       THEN Exit /\ UNCHANGED urls
       ELSE \E geoname_ids \in SUBSET Cities :
                LET m == get_city_restaurant_urls_with_status(
                             store, geoname_ids, args.status)
                IN  IF geoname_ids = {} \/ DOMAIN m = {}
                    THEN Exit /\ UNCHANGED urls
                    ELSE /\ urls' = m
                         /\ pc' = "drain"
                         /\ Submit(m, CHOOSE c \in DOMAIN m :
                                          \A d \in DOMAIN m : c <= d, 0)

\* a worker thread: one call of the collaborator and what follows it
AttemptUrl(u) ==
    /\ pc = "drain"
    /\ u \in DOMAIN work
    /\ work[u].phase = "running"
    /\ \E resp \in Responses :
           /\ work' = [work EXCEPT ![u] = Attempt(@, resp, args.validate)]
           /\ final' = [final EXCEPT ![u] =
                            IF work'[u].phase = "returned"
                            THEN FinalOf(resp) ELSE NoFinal]
           /\ seen' = [seen EXCEPT ![u] =
                           SeenAfter(@, work[u], resp, args.validate)]
    /\ UNCHANGED <<store, lastOp, todo, assigned, store0, args, pc,
                   iteration, urls, cursor, auxVars>>

\* the main thread takes a completed future and removes the row or keeps it
HandleResult(u) ==
    /\ pc = "drain"
    /\ u \in DOMAIN work
    /\ work[u].phase = "returned"
    /\ work' = [work EXCEPT ![u].phase = "handled"]
    /\ IF ShouldRemoveRow(work[u])
       THEN LET r == remove_city_restaurant_url(store, u, FALSE)
            IN  /\ store' = r.store
                /\ lastOp' = Op("remove", FALSE, r)
       ELSE UNCHANGED <<store, lastOp>>
    /\ UNCHANGED <<todo, assigned, store0, args, pc, iteration, urls, cursor,
                   final, seen, auxVars>>

\* every future of the batch is handled: next batch, next city, or the end of
\* the iteration
NextBatch ==
    /\ pc = "drain"
    /\ \A u \in DOMAIN work : work[u].phase = "handled"
    /\ UNCHANGED <<store, lastOp, todo, assigned, store0, args, iteration,
                   urls, auxVars>>
    /\ LET c == cursor.geoname_id
           later == {d \in DOMAIN urls : d > c}
       IN  IF cursor.i + batch_size < Len(urls[c])
           THEN Submit(urls, c, cursor.i + batch_size) /\ UNCHANGED pc
           ELSE IF later # {}
           THEN /\ Submit(urls, CHOOSE d \in later : \A e \in later : d <= e, 0)
                /\ UNCHANGED pc
           ELSE IF args.continuous
           THEN /\ pc' = "top"
                /\ cursor' = NoBatch
                /\ work' = [u \in {} |-> 0]
                /\ final' = [u \in {} |-> 0]
                /\ seen' = [u \in {} |-> 0]
           ELSE Exit

Next ==
    \/ StartIteration
    \/ \E u \in URLS : AttemptUrl(u)
    \/ \E u \in URLS : HandleResult(u)
    \/ NextBatch

Spec == Init /\ [][Next]_vars

\* -------------------------------------------------------------------------
\* Properties of the orchestrator (Spec)
\* -------------------------------------------------------------------------
\* the URLs the listing of the given status returns for all cities
Listed(s, status) ==
    LET m == get_city_restaurant_urls_with_status(s, Cities, status)
    IN  UNION {{m[c][k][1] : k \in 1..Len(m[c])} : c \in DOMAIN m}

\* the main thread has dealt with the result of URL u
Handled(u) == u \in DOMAIN work /\ work[u].phase = "handled"

\* C1: a URL whose processing ended in an ambiguous outcome (exception of the
\* scraping call, error envelope, bot challenge, undersized response or status
\* 429) with no record ingested keeps its row: after the orchestrator has
\* handled the result the row is in the store as it was and the listing of
\* pending URLs returns it.
AmbiguousKept ==
    \A u \in URLS :
        (Handled(u) /\ final[u].amb /\ work[u].successful_restaurants = 0)
            => /\ CountUrl(store, u) = 1
               /\ RowsWithUrl(store, u) = RowsWithUrl(store0, u)
               /\ u \in Listed(store, "pending")

\* C1 witness: a result with an ambiguous last response and no ingested record
\* is handled
AmbiguousHandled ==
    \E u \in URLS :
        /\ Handled(u)
        /\ final[u].amb
        /\ work[u].successful_restaurants = 0
        /\ work[u].error # "none"

\* C2: a URL whose response yielded at least one record forwarded with
\* success has its row deleted when its result is handled, which happens
\* before the batch and the iteration end; no row of the store is altered.
IngestedRemoved ==
    \A u \in URLS :
        (Handled(u) /\ work[u].successful_restaurants > 0)
            => /\ RowsWithUrl(store, u) = {}
               /\ \A r \in BagToSet(store) :
                      CopiesIn(r, store) = CopiesIn(r, store0)

\* C2 witness: the row of a URL with an ingested record was deleted
IngestedHandled ==
    \E u \in URLS :
        /\ Handled(u)
        /\ work[u].successful_restaurants > 0
        /\ RowsWithUrl(store0, u) # {}
        /\ lastOp.op = "remove"
        /\ lastOp.ret

\* C3 (the claim as stated): a URL whose last response is nominal (no error,
\* status 200), of at least the minimum size, with other_scripts and without
\* items is classified confirmed-empty and its row is removed.
NominalEmptyRemoved ==
    \A u \in URLS :
        (Handled(u) /\ final[u].nominal)
            => /\ work[u].should_remove_url
               /\ RowsWithUrl(store, u) = {}

\* process_single_url has returned for URL u
Returned(u) == u \in DOMAIN work /\ work[u].phase \in {"returned", "handled"}

\* C11 (the claim as stated): once an attempt of a URL got a throttled
\* response (status 429), whatever the attempt number and the size of the
\* response, process_single_url makes no further attempt, and the row of the
\* URL stays in the store.
ThrottledStops ==
    \A u \in DOMAIN work :
        seen[u].throttled
            => /\ work[u].phase # "running"
               /\ CountUrl(store, u) = 1

\* C12 (the claim as stated): process_single_url returns on a transient
\* failure (exception of the scraping call, empty or error response) only
\* after three attempts; before that it makes another attempt.
TransientRetried ==
    \A u \in DOMAIN work : Returned(u) => ~seen[u].early

\* C13: with an allow-list, the records forwarded for a response are at most
\* its items that the allow-list holds, so no mismatched item is forwarded or
\* counted; a response all of whose items are mismatched counts no successful
\* record and its URL keeps its row.
MismatchedSkipped ==
    \A u \in DOMAIN work :
        (args.validate /\ Returned(u))
            => /\ work[u].successful_restaurants + work[u].failed_restaurants
                      <= seen[u].eligible
               /\ seen[u].allskipped
                      => /\ work[u].successful_restaurants = 0
                         /\ ~ShouldRemoveRow(work[u])
                         /\ CountUrl(store, u) = 1

\* C13 witness: a response whose items were all mismatched has been handled
AllMismatchedHandled ==
    \E u \in DOMAIN work :
        /\ args.validate
        /\ Handled(u)
        /\ seen[u].allskipped
        /\ work[u].restaurants_found
        /\ work[u].failed_restaurants = 0

\* C14: the orchestrator only deletes rows: every row of the store is a row
\* the store held at the start, with its geoname_id and status. After a URL
\* whose response was flagged as a bot challenge is handled, its row is there
\* unchanged and the listing of its status for its city returns the URL.
ChallengeKeepsRow ==
    /\ \A r \in BagToSet(store) : CopiesIn(r, store) = CopiesIn(r, store0)
    /\ \A u \in DOMAIN work :
           (Handled(u) /\ work[u].captcha_detected)
               => /\ CountUrl(store, u) = 1
                  /\ RowsWithUrl(store, u) = RowsWithUrl(store0, u)
                  /\ \A r \in RowsWithUrl(store, u) :
                         LET m == get_city_restaurant_urls_with_status(
                                      store, {r.geoname_id}, "pending")
                         IN  /\ r.status = "pending"
                             /\ r.geoname_id \in DOMAIN m
                             /\ \E k \in 1..Len(m[r.geoname_id]) :
                                    m[r.geoname_id][k] = <<u, "pending">>

\* C14 witness: a URL with a flagged response has been handled
ChallengeHandled ==
    \E u \in DOMAIN work :
        /\ Handled(u)
        /\ work[u].captcha_detected
        /\ work[u].error = "captcha"

\* -------------------------------------------------------------------------
\* src/2_create_links_in_db.py: calls of the URL generator (SpecGen)
\* -------------------------------------------------------------------------
\* the store and everything that works on it is at rest
IdleStore ==
    /\ store = EmptyBag
    /\ lastOp = NoOp
    /\ store0 = EmptyBag
    /\ IdleWorkers
    /\ IdleOrchestrator

InitGen ==
    /\ IdleStore
    /\ city \in CityRecords
    /\ generated = NotGenerated
    /\ IdleSink
    /\ IdleInstances
    /\ IdleRest

\* generate_restaurant_urls(city) is called, a first or a second time
Generate ==
    /\ generated.calls < MaxCalls
    /\ LET r == generate_restaurant_urls(city)
       IN  generated' = [calls |-> generated.calls + 1, raised |-> r.raised,
                         urls |-> r.urls, prev |-> generated.urls]
    /\ UNCHANGED <<store, lastOp, todo, assigned, store0, orchVars, city,
                   answers, forwarded, inst, restVars>>

NextGen == Generate

SpecGen == InitGen /\ [][NextGen]_vars

RECURSIVE DigitsValue(_)
\* the number a decimal text denotes; no text, no offset: the first page
DigitsValue(d) ==
    IF d = <<>> THEN 0
    ELSE DigitsValue(SubSeq(d, 1, Len(d) - 1)) * 10 + d[Len(d)]

\* the city has a geo id: the key is there and neither None nor 0
HasGeoId(c) ==
    c.tripadvisor_geo_id.tag = "int" /\ c.tripadvisor_geo_id.n # 0

\* the city's result count is known
KnownCount(c) == c.tripadvisor_restaurants_results.tag = "int"

\* C15: for a city with a geo id and a known result count R > 0 the generator
\* returns exactly ceil(R/30) URLs of that geo id, the i-th (from 0)
\* addressing offset 30*i, and a second call returns the same list.
GeneratedPages ==
    (/\ generated.calls >= 1
     /\ HasGeoId(city)
     /\ KnownCount(city)
     /\ city.tripadvisor_restaurants_results.n > 0)
        => LET R == city.tripadvisor_restaurants_results.n
               us == generated.urls
           IN  /\ ~generated.raised
               /\ Len(us) = (R + 29) \div 30
               /\ \A i \in 1..Len(us) :
                      /\ us[i].geo = city.tripadvisor_geo_id.n
                      /\ DigitsValue(us[i].offset) = 30 * (i - 1)
               /\ generated.calls >= 2 => us = generated.prev

\* C15 witness: a second call for a city whose count is not a multiple of 30
\* and fills more than two pages
GeneratedTwice ==
    /\ generated.calls = 2
    /\ HasGeoId(city)
    /\ KnownCount(city)
    /\ city.tripadvisor_restaurants_results.n > 60
    /\ Len(generated.urls) = 3

\* C16: for a city whose result count is <= 0, and for a city without geo id
\* (key missing, None or 0) whatever its result count, the generator returns
\* the empty list and raises nothing.
GeneratedEmpty ==
    (/\ generated.calls >= 1
     /\ \/ ~HasGeoId(city)
        \/ KnownCount(city) /\ city.tripadvisor_restaurants_results.n <= 0)
        => /\ generated.urls = <<>>
           /\ ~generated.raised

\* C16 witness: a city without geo id whose result count is positive, and one
\* whose count is unknown, got the empty list
GeneratedNoGeo ==
    /\ generated.calls >= 1
    /\ ~HasGeoId(city)
    /\ city.tripadvisor_geo_id.tag \in {"absent", "none"}
    /\ \/ city.tripadvisor_restaurants_results.tag = "none"
       \/ city.tripadvisor_restaurants_results.n > 0
    /\ generated.urls = <<>>

\* C17 (the claim as stated): the first URL the generator returns carries no
\* offset parameter, the following ones carry the offsets 30, 60, ... in
\* order.
FirstUrlNoOffset ==
    (generated.calls >= 1 /\ generated.urls # <<>>)
        => /\ generated.urls[1].offset = <<>>
           /\ \A i \in 2..Len(generated.urls) :
                  generated.urls[i].offset = Digits(30 * (i - 1))

\* -------------------------------------------------------------------------
\* src/3_scrape_city_restaurant_urls.py: one record is forwarded (SpecForward)
\* -------------------------------------------------------------------------
InitForward ==
    /\ IdleStore
    /\ IdleGenerator
    /\ answers \in [1..MaxAnswers -> AnswerCodes]
    /\ \E has_data \in BOOLEAN : forwarded = NotForwarded(has_data)
    /\ IdleInstances
    /\ IdleRest

\* process_single_url hands one item to add_restaurant_basic_info and counts
\* the outcome
ForwardRecord ==
    /\ ~forwarded.done
    /\ LET api_result == add_restaurant_basic_info(forwarded.has_data, answers)
       IN  forwarded' =
               [forwarded EXCEPT
                   !.done = TRUE,
                   !.requests = api_result.requests,
                   !.successful_restaurants =
                       IF api_result.success THEN @ + 1 ELSE @,
                   !.failed_restaurants =
                       IF api_result.success THEN @ ELSE @ + 1]
    /\ UNCHANGED <<store, lastOp, todo, assigned, store0, orchVars, city,
                   generated, answers, inst, restVars>>

NextForward == ForwardRecord

SpecForward == InitForward /\ [][NextForward]_vars

\* C18 (the claim as stated): when the remote API answers the first request
\* for a record with a 5xx status or the request fails at network level, the
\* record is sent again (up to 3 requests in total) before it is counted as
\* failed; a second request that succeeds makes it a successful record.
ForwardRetried ==
    (/\ forwarded.done
     /\ forwarded.has_data
     /\ answers[1] \in {NetErr, 500})
        => /\ forwarded.requests >= 2
           /\ answers[2] \in {200, 201}
                  => forwarded.successful_restaurants = 1

\* -------------------------------------------------------------------------
\* __main__: a city with more URLs than one batch holds (SpecBatch)
\* -------------------------------------------------------------------------
BatchUrls == {UrlOfPage(i) : i \in 0..(BatchRows - 1)}

\* a response that holds one record of the right location, which the remote
\* API accepts
OneRecordResp ==
    [kind |-> "env", error |-> FALSE, other |-> TRUE,
     items |-> <<Item("full", "match", TRUE)>>, captcha |-> FALSE,
     size |-> min_size_kb * 1024, status |-> 200]

\* answers on which process_single_url returns after one attempt
BatchResponses == {RaiseResp, OneRecordResp}

InitBatch ==
    /\ store = SetToBag({Row(1, u, "pending") : u \in BatchUrls})
    /\ store0 = store
    /\ lastOp = NoOp
    /\ IdleWorkers
    /\ args \in {a \in Args : a.status = "pending" /\ ~a.continuous}
    /\ pc = "top"
    /\ iteration = 0
    /\ urls = [c \in {} |-> <<>>]
    /\ cursor = NoBatch
    /\ work = [u \in {} |-> 0]
    /\ final = [u \in {} |-> 0]
    /\ seen = [u \in {} |-> 0]
    /\ IdleAux

\* a worker thread whose call of the collaborator raises or yields a record
AttemptOnce(u) ==
    /\ pc = "drain"
    /\ u \in DOMAIN work
    /\ work[u].phase = "running"
    /\ \E resp \in BatchResponses :
           /\ work' = [work EXCEPT ![u] = Attempt(@, resp, args.validate)]
           /\ final' = [final EXCEPT ![u] = FinalOf(resp)]
           /\ seen' = [seen EXCEPT ![u] =
                           SeenAfter(@, work[u], resp, args.validate)]
    /\ UNCHANGED <<store, lastOp, todo, assigned, store0, args, pc,
                   iteration, urls, cursor, auxVars>>

NextDrain ==
    \/ StartIteration
    \/ \E u \in BatchUrls : AttemptOnce(u)
    \/ \E u \in BatchUrls : HandleResult(u)
    \/ NextBatch

SpecBatch == InitBatch /\ [][NextDrain]_vars

\* the URLs whose worker has not returned yet
Running == {u \in DOMAIN work : work[u].phase = "running"}

\* C19: while the orchestrator drains, the listing of the current city holds
\* each URL once, the workers of the batch are those of one slice of at most 5
\* consecutive entries of it, so the URLs in process are pairwise distinct
\* and at most 5, and a removal is made for the URL of the handled result
\* only.
BatchDisjoint ==
    pc = "drain"
        => LET l == urls[cursor.geoname_id]
               hi == IF cursor.i + 5 < Len(l) THEN cursor.i + 5 ELSE Len(l)
           IN  /\ \A j, k \in 1..Len(l) : j # k => l[j][1] # l[k][1]
               /\ DOMAIN work = {l[k][1] : k \in (cursor.i + 1)..hi}
               /\ Cardinality(DOMAIN work) = hi - cursor.i
               /\ Cardinality(Running) <= 5
               /\ \A u \in DOMAIN work :
                      work[u].phase # "handled" => CountUrl(store, u) = 1

\* C19 witness: five workers run at once on a city that has more URLs
FiveRunning ==
    /\ pc = "drain"
    /\ Len(urls[cursor.geoname_id]) > 5
    /\ Cardinality(Running) = 5

\* -------------------------------------------------------------------------
\* Two orchestrator instances remove URLs of one store (SpecTwo)
\* -------------------------------------------------------------------------
\* the counter is advanced whatever the remove returned
CountRemoval_Always(n, removed) == n + 1

\* "if remove_city_restaurant_url(url): urls_removed_overall += 1"
CountRemoval(n, removed) == IF removed THEN n + 1 ELSE n

\* every instance processed URLs of the listing it took of the same store
\* and decided to remove them
InitTwo ==
    /\ store \in {SetToBag(q) : q \in SUBSET QueueRows}
    /\ store0 = store
    /\ lastOp = NoOp
    /\ IdleWorkers
    /\ IdleOrchestrator
    /\ IdleGenerator
    /\ IdleSink
    /\ IdleRest
    /\ inst \in [1..NumInstances ->
                    {[decided |-> d, pending |-> d, urls_removed_overall |-> 0]
                         : d \in SUBSET {r.url : r \in BagToSet(store)}}]

\* instance i handles one of its results: the remove, and the count
RemoveDecided(i) ==
    \E u \in inst[i].pending, locked \in BOOLEAN :
        LET r == remove_city_restaurant_url(store, u, locked)
        IN  /\ store' = r.store
            /\ lastOp' = Op("remove", locked, r)
            /\ inst' = [inst EXCEPT
                           ![i].pending = @ \ {u},
                           ![i].urls_removed_overall = CountRemoval(@, r.ret)]
            /\ UNCHANGED <<todo, assigned, store0, orchVars, city, generated,
                           answers, forwarded, restVars>>

NextTwo == \E i \in 1..NumInstances : RemoveDecided(i)

SpecTwo == InitTwo /\ [][NextTwo]_vars

RECURSIVE SumRemoved(_)
\* the removal counts of instances 1..k, summed
SumRemoved(k) ==
    IF k = 0 THEN 0 ELSE SumRemoved(k - 1) + inst[k].urls_removed_overall

\* C20: under every interleaving of the instances' removes the removal counts
\* summed over the instances equal the number of rows deleted, and a remove of
\* a URL that is no longer in the store returns false, leaves the store as it
\* is and is not counted.
SecondRemoveNoOp ==
    /\ [](SumRemoved(NumInstances)
              = BagCardinality(store0) - BagCardinality(store))
    /\ [][\A i \in 1..NumInstances : \A u \in inst[i].pending :
              (u \notin inst'[i].pending /\ RowsWithUrl(store, u) = {})
                  => /\ ~lastOp'.ret
                     /\ store' = store
                     /\ inst'[i].urls_removed_overall
                            = inst[i].urls_removed_overall]_vars

\* C20 witness: two instances decided to remove the same URL, both made their
\* remove, the last one found no row, and one removal is counted
BothRemovedSame ==
    /\ \E u \in URLS :
           /\ u \in inst[1].decided \cap inst[2].decided
           /\ inst[1].decided = {u}
           /\ inst[2].decided = {u}
    /\ \A i \in 1..NumInstances : inst[i].pending = {}
    /\ lastOp.op = "remove"
    /\ ~lastOp.locked
    /\ ~lastOp.ret
    /\ SumRemoved(NumInstances) = 1
    /\ BagCardinality(store0) - BagCardinality(store) = 1

\* -------------------------------------------------------------------------
\* One run of the orchestrator, iteration by iteration (SpecRun)
\* -------------------------------------------------------------------------
\* get_city_restaurant_urls_with_status with its except clause: a database
\* that cannot be read yields the empty mapping
get_city_restaurant_urls_with_status_io(s, geoname_ids, status, readable) ==
    IF readable
    THEN get_city_restaurant_urls_with_status(s, geoname_ids, status)
    ELSE [c \in {} |-> <<>>]

\* --continuous and --max-iterations as argparse takes them: any integer
RunArgs ==
    {a \in [status : {"pending"}, continuous : BOOLEAN,
            max_iterations : 0..MaxIterations, validate : {FALSE}] :
        ~a.continuous => a.max_iterations = 1}

InitRun ==
    /\ store \in {SetToBag(q) : q \in SUBSET QueueRows}
    /\ store0 = store
    /\ lastOp = NoOp
    /\ IdleWorkers
    /\ args \in RunArgs
    /\ pc = "top"
    /\ iteration = 0
    /\ urls = [c \in {} |-> <<>>]
    /\ cursor = NoBatch
    /\ work = [u \in {} |-> 0]
    /\ final = [u \in {} |-> 0]
    /\ seen = [u \in {} |-> 0]
    /\ IdleGenerator
    /\ IdleSink
    /\ IdleInstances
    /\ IdleLambda
    /\ IdleLink
    /\ IdleCalls
    /\ \E readable \in BOOLEAN : run = [NoRun EXCEPT !.readable = readable]

\* the loop is left with a message
RunExit(message) ==
    /\ pc' = "exit"
    /\ urls' = [c \in {} |-> <<>>]
    /\ run' = [run EXCEPT !.message = message]

\* the top of "while True" up to the listing
RunTop ==
    /\ pc = "top"
    /\ iteration' = iteration + 1
    /\ UNCHANGED <<store, lastOp, todo, assigned, store0, args, cursor, work,
                   final, seen, city, generated, answers, forwarded, inst,
                   lam, linked, spider_calls>>
    /\ IF iteration' > 1 /\ args.continuous
          /\ iteration' > args.max_iterations
       THEN RunExit("max_iterations")
       ELSE \E geoname_ids \in SUBSET Cities :
                LET m == get_city_restaurant_urls_with_status_io(
                             store, geoname_ids, args.status, run.readable)
                IN  IF geoname_ids = {} THEN RunExit("no_cities")
                    ELSE IF DOMAIN m = {} THEN RunExit("all_processed")
                    ELSE /\ urls' = m
                         /\ pc' = "drain"
                         /\ UNCHANGED run

\* the drain of one iteration: every listed URL is processed, the rows of some
\* are removed; then the test of --continuous
RunDrain ==
    /\ pc = "drain"
    /\ \E removed \in SUBSET {u \in URLS : \E c \in DOMAIN urls :
                                \E k \in 1..Len(urls[c]) : urls[c][k][1] = u} :
           store' = [r \in {x \in BagToSet(store) : x.url \notin removed}
                         |-> store[r]]
    /\ IF args.continuous
       THEN /\ pc' = "top"
            /\ urls' = [c \in {} |-> <<>>]
            /\ run' = [run EXCEPT !.drains = @ + 1]
       ELSE /\ pc' = "exit"
            /\ urls' = [c \in {} |-> <<>>]
            /\ run' = [run EXCEPT !.drains = @ + 1, !.message = "finished"]
    /\ UNCHANGED <<lastOp, todo, assigned, store0, args, iteration, cursor,
                   work, final, seen, city, generated, answers, forwarded,
                   inst, lam, linked, spider_calls>>

NextRun == RunTop \/ RunDrain

SpecRun == InitRun /\ [][NextRun]_vars

\* C21 (the claim as stated): when the database cannot be read, a run that
\* reaches the listing ends with an error outcome, never with the message of a
\* normal completion with no pending URL.
UnreadableAborts ==
    (pc = "exit" /\ ~run.readable) => run.message # "all_processed"

\* C26 (the claim as stated): the run makes at most one drain iteration
\* without --continuous and at most max_iterations drain iterations with it,
\* for every configured max_iterations.
DrainBounded ==
    run.drains <= (IF args.continuous THEN args.max_iterations ELSE 1)

\* -------------------------------------------------------------------------
\* The store with callers that pass any status text (SpecStatus)
\* -------------------------------------------------------------------------
\* the status texts a caller may pass: the three of the enumeration and one
\* that is none of them
StatusTexts == Statuses \cup {"done"}

\* add_city_restaurant called without the status argument
add_city_restaurant_default(s, geoname_id, url, locked) ==
    add_city_restaurant(s, geoname_id, url, "pending", locked)

InitStatus == InitStore

EnqueueDefault ==
    \E c \in Cities, u \in URLS, locked \in BOOLEAN :
        LET r == add_city_restaurant_default(store, c, u, locked)
        IN  /\ BagCardinality(r.store) <= MaxRows
            /\ store' = r.store
            /\ lastOp' = Op("enqueue_default", locked, r)
            /\ UNCHANGED <<todo, assigned, store0, orchVars, auxVars>>

EnqueueText ==
    \E c \in Cities, u \in URLS, st \in StatusTexts, locked \in BOOLEAN :
        LET r == add_city_restaurant(store, c, u, st, locked)
        IN  /\ BagCardinality(r.store) <= MaxRows
            /\ store' = r.store
            /\ lastOp' = Op("enqueue", locked, r)
            /\ UNCHANGED <<todo, assigned, store0, orchVars, auxVars>>

UpdateText ==
    \E u \in URLS, c \in Cities \cup {NoId}, st \in StatusTexts \cup {None},
       locked \in BOOLEAN :
        LET r == update_city_restaurant(store, u, c, st, locked)
        IN  /\ store' = r.store
            /\ lastOp' = Op("update", locked, r)
            /\ UNCHANGED <<todo, assigned, store0, orchVars, auxVars>>

NextStatus == EnqueueDefault \/ EnqueueText \/ UpdateText \/ Remove

SpecStatus == InitStatus /\ [][NextStatus]_vars

\* C23 (the claim as stated): in every reachable state of the store every
\* row's status is one of pending, in_progress, completed, and a row enqueued
\* without an explicit status is pending.
StatusEnumerated ==
    /\ \A r \in BagToSet(store) : r.status \in Statuses
    /\ (lastOp.op = "enqueue_default" /\ lastOp.ret)
           => \E r \in BagToSet(store) : r.status = "pending"

\* C22 (the claim as stated): add_links_to_database called with a list of
\* which some URLs exist ignores the duplicates: after the call every URL of
\* the list has a row, those that had none have a pending row of the city, and
\* the rows that existed are as they were.
DuplicatesIgnored ==
    [][\A c \in Cities, links \in LinkLists :
           (/\ links # <<>>
            /\ \A j, k \in 1..Len(links) : j # k => links[j] # links[k]
            /\ lastOp' = Op("bulk", FALSE,
                            add_links_to_database(store, c, links, FALSE))
            /\ store' = add_links_to_database(store, c, links, FALSE).store)
               => /\ \A k \in 1..Len(links) :
                         /\ CountUrl(store', links[k]) = 1
                         /\ CountUrl(store, links[k]) = 0
                                => BagIn(Row(c, links[k], "pending"), store')
                  /\ \A r \in BagToSet(store) :
                         CopiesIn(r, store') = CopiesIn(r, store)]_vars

\* -------------------------------------------------------------------------
\* The legacy generator on a city and a result count (SpecLegacy)
\* -------------------------------------------------------------------------
\* generate_urls was not called yet on the result count
NotGeneratedFor(results) ==
    [calls |-> 0, results |-> results, none |-> FALSE, urls |-> <<>>]

\* main() calls the generator for cities with a geo id and no stored result
\* count, on the count parsed from the first page
InitLegacy ==
    /\ IdleStore
    /\ city \in {c \in CityRecords :
                    /\ Truthy(c.tripadvisor_geo_id)
                    /\ ~Truthy(c.tripadvisor_restaurants_results)
                    /\ c.tripadvisor_restaurants_results.n = 0}
    /\ \E r \in 0..MaxResults : generated = NotGeneratedFor(IntVal(r))
    /\ IdleSink
    /\ IdleInstances
    /\ IdleRest

GenerateLegacy ==
    /\ generated.calls = 0
    /\ LET r == generate_urls(city, generated.results)
       IN  generated' = [generated EXCEPT !.calls = 1, !.none = r.none,
                                          !.urls = r.urls]
    /\ UNCHANGED <<store, lastOp, todo, assigned, store0, orchVars, city,
                   answers, forwarded, inst, restVars>>

NextLegacy == GenerateLegacy

SpecLegacy == InitLegacy /\ [][NextLegacy]_vars

\* C25 (the claim as stated): for results > 0 the legacy generator returns
\* exactly ceil(results/30) URLs, the first without offset and the following
\* with offsets 30, 60, ..., and no URL addresses an offset >= results.
LegacyPages ==
    (generated.calls = 1 /\ generated.results.n > 0)
        => LET n == generated.results.n
               pages == (n + 29) \div 30
           IN  /\ ~generated.none
               /\ Len(generated.urls) = pages
               /\ generated.urls[1].offset = <<>>
               /\ \A i \in 2..Len(generated.urls) :
                      generated.urls[i].offset = Digits(30 * (i - 1))
               /\ \A i \in 1..Len(generated.urls) :
                      DigitsValue(generated.urls[i].offset) < n

\* -------------------------------------------------------------------------
\* One link sent to the remote API (SpecLink)
\* -------------------------------------------------------------------------
InitLink ==
    /\ IdleStore
    /\ IdleGenerator
    /\ answers \in [1..MaxAnswers -> LinkCodes]
    /\ forwarded = NotForwarded(FALSE)
    /\ IdleInstances
    /\ IdleRun
    /\ IdleLambda
    /\ IdleCalls
    /\ linked = NotLinked

AddLink ==
    /\ ~linked.done
    /\ LET r == add_restaurant_link_via_api(answers)
       IN  linked' = [done |-> TRUE, ret |-> r.ret, requests |-> r.requests]
    /\ UNCHANGED <<store, lastOp, todo, assigned, store0, orchVars, city,
                   generated, answers, forwarded, inst, run, lam,
                   spider_calls>>

NextLink == AddLink

SpecLink == InitLink /\ [][NextLink]_vars

\* C28: one call of add_restaurant_link_via_api sends at least one and at
\* most 3 requests and returns a boolean; it returns true exactly when one of
\* the requests sent was answered with 200 or 201; every request before the
\* last was answered with a 5xx status or failed with a network exception; a
\* 4xx answer to a request ends the call at once with false.
LinkRetryContract ==
    linked.done
        => /\ linked.requests \in 1..3
           /\ linked.ret \in BOOLEAN
           /\ linked.ret <=> \E k \in 1..linked.requests :
                                 answers[k] \in {200, 201}
           /\ \A k \in 1..(linked.requests - 1) :
                  answers[k] = NetErr \/ answers[k] >= 500
           /\ \A k \in 1..linked.requests :
                  answers[k] \in 400..499
                      => linked.requests = k /\ ~linked.ret

\* C28 (witness): a server error, then a network exception, then success on
\* the third request
LinkThirdRequest ==
    /\ linked.done
    /\ linked.requests = 3
    /\ linked.ret
    /\ answers[1] = 500
    /\ answers[2] = NetErr

\* -------------------------------------------------------------------------
\* One invocation of lambda_handler (SpecLambda)
\* -------------------------------------------------------------------------
InitLambda ==
    /\ IdleStore
    /\ IdleGenerator
    /\ IdleSink
    /\ IdleInstances
    /\ IdleRun
    /\ IdleLink
    /\ IdleCalls
    /\ \E in \in LambdaInputs : lam = NotInvoked(in)

Invoke ==
    /\ ~lam.called
    /\ lam' = [lam EXCEPT !.called = TRUE, !.response = lambda_handler(lam.in)]
    /\ UNCHANGED <<store, lastOp, todo, assigned, store0, orchVars, city,
                   generated, answers, forwarded, inst, run, linked,
                   spider_calls>>

NextLambda == Invoke

SpecLambda == InitLambda /\ [][NextLambda]_vars

\* C24 (the claim as stated): the handler answers 404 with an error body and
\* scrapes, uploads and updates nothing when no restaurant is available; 200
\* with a success body when fetch, scrape and upload complete without raising;
\* 500 with an error body when the scrape or the upload raises.
HandlerClassifies ==
    lam.called
        => LET in == lam.in
               resp == lam.response
           IN  /\ in.restaurant.kind # "record"
                      => /\ resp.statusCode = 404
                         /\ resp.body = "error"
                         /\ ~resp.scraped
                         /\ ~resp.uploaded
                         /\ resp.updates = <<>>
               /\ (/\ in.restaurant.kind = "record"
                   /\ ~ScrapeRaises(in)
                   /\ ~in.upload_fails)
                      => /\ resp.statusCode = 200
                         /\ resp.body = "success"
               /\ (/\ in.restaurant.kind = "record"
                   /\ ScrapeRaises(in) \/ in.upload_fails)
                      => /\ resp.statusCode = 500
                         /\ resp.body = "error"

\* -------------------------------------------------------------------------
\* One invocation of process_single_url with its calls counted (SpecCalls)
\* -------------------------------------------------------------------------
InitCalls ==
    /\ \E u \in URLS :
           /\ store = SetToBag({Row(1, u, "pending")})
           /\ work = [v \in {u} |-> NewResult]
           /\ final = [v \in {u} |-> NoFinal]
           /\ seen = [v \in {u} |-> NoSeen]
    /\ store0 = store
    /\ lastOp = NoOp
    /\ IdleWorkers
    /\ args \in {a \in Args : a.status = "pending" /\ ~a.continuous}
    /\ pc = "drain"
    /\ iteration = 1
    /\ urls = [c \in {} |-> <<>>]
    /\ cursor = NoBatch
    /\ IdleGenerator
    /\ IdleSink
    /\ IdleInstances
    /\ IdleRun
    /\ IdleLambda
    /\ IdleLink
    /\ spider_calls = 0

\* one pass of the while loop: the collaborator is called, and the pass goes
\* on to the next call or to the return
CallSpider(u) ==
    /\ u \in DOMAIN work
    /\ work[u].phase = "running"
    /\ spider_calls' = spider_calls + 1
    /\ \E resp \in Responses :
           /\ work' = [work EXCEPT ![u] = Attempt(@, resp, args.validate)]
           /\ final' = [final EXCEPT ![u] =
                            IF work'[u].phase = "returned"
                            THEN FinalOf(resp) ELSE NoFinal]
           /\ seen' = [seen EXCEPT ![u] =
                           SeenAfter(@, work[u], resp, args.validate)]
    /\ UNCHANGED <<store, lastOp, todo, assigned, store0, args, pc,
                   iteration, urls, cursor, city, generated, answers,
                   forwarded, inst, run, lam, linked>>

NextCalls == \E u \in URLS : CallSpider(u)

SpecCalls == InitCalls /\ [][NextCalls]_vars

\* C27: one invocation of process_single_url calls the collaborator at least
\* once and at most 3 times and then returns a result record, whatever the
\* collaborator answers or raises: while it runs fewer than 3 calls were made,
\* and when it has returned between 1 and 3 calls were made.
CallsBounded ==
    \A u \in DOMAIN work :
        /\ spider_calls \in 0..max_retries
        /\ work[u].phase \in {"running", "returned"}
        /\ work[u].phase = "running"
               => /\ spider_calls = work[u].retry_count
                  /\ spider_calls < max_retries
        /\ work[u].phase = "returned" => spider_calls >= 1

\* C27 (witness): an invocation returned after its third call, each answered
\* with an undersized response
ReturnedAfterThree ==
    \E u \in DOMAIN work :
        /\ work[u].phase = "returned"
        /\ work[u].error = "too_small"
        /\ spider_calls = max_retries

\* C27 (second case): an invocation returned after one call that raised
ReturnedOnRaise ==
    \E u \in DOMAIN work :
        /\ work[u].phase = "returned"
        /\ work[u].error = "exception"
        /\ spider_calls = 1

\* -------------------------------------------------------------------------
\* process_single_url: what follows a response with items (Spec)
\* -------------------------------------------------------------------------
\* C29: a URL whose response held items is never classified confirmed-empty:
\* when none of the items was ingested the invocation returns with
\* should_remove_url false, and the row is still in the store after the result
\* was handled.
ItemsNeverConfirmedEmpty ==
    \A u \in DOMAIN work :
        (/\ Returned(u)
         /\ work[u].restaurants_found
         /\ work[u].successful_restaurants = 0)
            => /\ ~work[u].should_remove_url
               /\ CountUrl(store, u) = 1

\* C29 (witness): the result of a URL whose only item the remote API rejected
\* was handled
RejectedHandled ==
    \E u \in DOMAIN work :
        /\ Handled(u)
        /\ work[u].restaurants_found
        /\ work[u].successful_restaurants = 0
        /\ work[u].failed_restaurants > 0
        /\ CountUrl(store, u) = 1

\* C30: once an attempt returned items the invocation makes no further
\* attempt, and it submitted no more records than that one response holds
\* items which pass the allow-list.
NoAttemptAfterItems ==
    \A u \in DOMAIN work :
        work[u].restaurants_found
            => /\ work[u].phase # "running"
               /\ work[u].successful_restaurants + work[u].failed_restaurants
                      <= seen[u].eligible

\* C30 (witness): an invocation returned on a response whose items were all
\* skipped by the allow-list, after an earlier attempt that failed
SkippedNotRetried ==
    \E u \in DOMAIN work :
        /\ work[u].phase = "returned"
        /\ work[u].restaurants_found
        /\ work[u].successful_restaurants = 0
        /\ work[u].failed_restaurants = 0
        /\ seen[u].allskipped

====
